---------------------------- MODULE Spec2Model ----------------------------
(***************************************************************************)
(* Model of Notebooks/CNN_Model.ipynb: a linear notebook that downloads    *)
(* price series, derives technical indicators, differences the series,    *)
(* enumerates every non-empty feature subset, scales, splits, windows,    *)
(* trains one CNN per (stock, subset), and evaluates MAPE and directional  *)
(* accuracy.                                                               *)
(*                                                                         *)
(* The notebook is modelled by several specifications that share the      *)
(* operators translated from its cells:                                    *)
(*   SpecEnum  - the feature-combination cell on arbitrary column lists    *)
(*   SpecCols  - columns and rows of a frame: fetch, indicators, enumerate *)
(*   SpecRun   - one run at the level of its lists, loops and model files  *)
(*   SpecData  - the numbers of one (stock, subset) pair, copy to MAPE     *)
(* Variables a specification does not use stay at their idle value.       *)
(***************************************************************************)
EXTENDS Integers, Sequences, FiniteSets, TLC

VARIABLES
    pc,                    \* the cell (or loop position) the notebook is at
    columns,               \* hist_data_all_stocks[0].columns, in order
    windows,               \* [vol, mom, ma]: the window arguments of calc_technical_indicators
    feature_combinations,  \* the list built by the feature-combination cell
    open_prices,           \* the 'Open' column of hist_data_all_stocks[0] as fetched
    index,                 \* the row labels of hist_data_all_stocks[0] (positions of the fetched rows)
    tickers,               \* the global list of ticker symbols (mutated by the fetch loop)
    fetch_outcome,         \* environment: what fetching each ticker does
    idx,                   \* position of the iterator of "for ticker in tickers"
    hist_data_all_stocks,  \* the frames appended so far, each [ticker, dropped]
    printed,               \* the diagnostic messages printed by the fetch loop
    train_test_all_stocks, \* per stock, per subset: the dataset of that pair
    loop_i, loop_j,        \* the indices of the running nested loop
    store,                 \* Pretrained_CNN_Models: key -> [trained_on, writes]
    reads,                 \* key -> number of load_pretrained_model calls
    results,               \* one record per evaluated pair, in append order
    results_df,            \* results_df_direction / results_df_mae: rows [label, values]
    hist_data,             \* hist_data_all_stocks[i] of one pair: rows <<feature, Close>>
    hist_data_non_stationary,  \* hist_data_all_stocks_non_stationary[i]
    train_size,            \* split_data's train_size, as <<numerator, denominator>>
    CNN_input_vector_size, \* the lookback handed to format_dataset
    feature_scaler,        \* feature_scaler_all_stocks[i][j]: [data_min, data_max]
    target_scaler,         \* target_scaler_all_stocks[i][j]: [data_min, data_max]
    scaled_features,       \* scaled_features_all_stocks[i][j]
    scaled_target,         \* scaled_target_all_stocks[i][j]
    train_test,            \* train_test_all_stocks[i][j]: <<x_train, x_test, y_train, y_test>>
    evaluated,             \* the locals of one evaluation-loop iteration
    y_test_direction_accuracy, \* the accuracy list, entries <<same_direction, len(pred)>>
    mape                   \* the MAPE list

colVars == <<columns, windows, feature_combinations, open_prices, index>>
fetchVars == <<tickers, fetch_outcome, idx, hist_data_all_stocks, printed>>
loopVars == <<train_test_all_stocks, loop_i, loop_j, store, reads, results, results_df>>
dataVars == <<hist_data, hist_data_non_stationary, train_size, CNN_input_vector_size,
              feature_scaler, target_scaler, scaled_features, scaled_target,
              train_test, evaluated, y_test_direction_accuracy, mape>>
vars == <<pc, colVars, fetchVars, loopVars, dataVars>>

-----------------------------------------------------------------------------
(* Bounds *)

\* largest number of feature columns of a frame handed to the enumerator in SpecEnum
MaxK == 4
\* largest window argument tried for calc_technical_indicators in SpecCols
MaxWindow == 4
\* volatility_window = momentum_window = ma_window = 20 by default
DefaultWindow == 20
WindowChoices == (1..MaxWindow) \cup {DefaultWindow}
DefaultWindows == [vol |-> DefaultWindow, mom |-> DefaultWindow, ma |-> DefaultWindow]

\* longest fetched series handed to calc_technical_indicators in SpecCols
MaxOpenRows == 5
\* shortest and longest series (rows after the indicator stage) in SpecData
MinRows == 1
MaxRows == 6
\* largest lookback handed to format_dataset in SpecData
MaxLookback == 2

-----------------------------------------------------------------------------
(* Generic helpers *)

Range(s) == {s[i] : i \in 1..Len(s)}

RECURSIVE Pow2(_)
Pow2(n) == IF n = 0 THEN 1 ELSE 2 * Pow2(n - 1)

\* all sequences of length n over S without repetition
RECURSIVE DistinctSeqs(_, _)
DistinctSeqs(S, n) ==
    IF n = 0 THEN {<<>>}
    ELSE UNION {{Append(s, x) : x \in S \ Range(s)} : s \in DistinctSeqs(S, n - 1)}

\* the list s without every element equal to x
RECURSIVE Without(_, _)
Without(s, x) ==
    IF s = <<>> THEN <<>>
    ELSE IF Head(s) = x THEN Without(Tail(s), x)
    ELSE <<Head(s)>> \o Without(Tail(s), x)

\* number of positions of s holding x
RECURSIVE Count(_, _)
Count(s, x) ==
    IF s = <<>> THEN 0
    ELSE (IF Head(s) = x THEN 1 ELSE 0) + Count(Tail(s), x)

\* all sequences of length n over S
RECURSIVE SeqsOf(_, _)
SeqsOf(S, n) ==
    IF n = 0 THEN {<<>>}
    ELSE UNION {{Append(s, x) : x \in S} : s \in SeqsOf(S, n - 1)}

\* range(a, b)
RECURSIVE PyRange(_, _)
PyRange(a, b) == IF a >= b THEN <<>> ELSE <<a>> \o PyRange(a + 1, b)

RECURSIVE Pow(_, _)
Pow(b, n) == IF n = 0 THEN 1 ELSE b * Pow(b, n - 1)

Max(a, b) == IF a >= b THEN a ELSE b

-----------------------------------------------------------------------------
(* Column names.  A name is <<text, window>>; the window is 0 for the      *)
(* names that carry none, so f"Vol_{w}" is <<"Vol", w>>.                   *)

Col(name, w) == <<name, w>>
Close == Col("Close", 0)
Open == Col("Open", 0)

\* the columns of yfinance.Ticker(...).history(...)
ProviderColumns ==
    <<Open, Col("High", 0), Col("Low", 0), Close, Col("Volume", 0),
      Col("Dividends", 0), Col("Stock Splits", 0)>>

\* DataFrame.drop(["High","Low","Volume","Dividends","Stock Splits"], axis=1)
DroppedColumns ==
    {Col("High", 0), Col("Low", 0), Col("Volume", 0), Col("Dividends", 0),
     Col("Stock Splits", 0)}

RECURSIVE DropColumns(_, _)
DropColumns(cols, dropped) ==
    IF cols = <<>> THEN <<>>
    ELSE IF Head(cols) \in dropped THEN DropColumns(Tail(cols), dropped)
    ELSE <<Head(cols)>> \o DropColumns(Tail(cols), dropped)

\* df[name] = ... : assigning an existing column keeps its place, a new one is appended
SetColumn(cols, c) == IF c \in Range(cols) THEN cols ELSE Append(cols, c)

\* the five assignments of calc_technical_indicators, in the order of the code
AddIndicatorColumns(cols, w) ==
    SetColumn(SetColumn(SetColumn(SetColumn(SetColumn(cols,
        Col("Vol", w.vol)), Col("RSI", 0)), Col("MACD", 0)),
        Col("Mom", w.mom)), Col("MA", w.ma))

\* df.insert(len(df.columns) - 1, "Close", df.pop('Close')): pop first, then
\* insert at the position computed from the column count BEFORE the pop
\* (the arguments of insert are evaluated left to right)
InsertAt(s, pos, x) == SubSeq(s, 1, pos) \o <<x>> \o SubSeq(s, pos + 1, Len(s))

\* an insert position computed from the column count AFTER the pop
MoveTargetBeforeLast(cols) ==
    InsertAt(Without(cols, Close), Len(Without(cols, Close)) - 1, Close)

MoveTargetLast(cols) == InsertAt(Without(cols, Close), Len(cols) - 1, Close)

-----------------------------------------------------------------------------
(* The rows of calc_technical_indicators.  Row t (from 1) of a fetched     *)
(* frame holds Open[t]; the provider's values are taken to be present      *)
(* (no NaN in Open or Close).  An indicator value is NaN or defined;       *)
(* dropna() keeps the rows in which no column is NaN.                      *)

\* Series.rolling(w): min_periods = w, so the window of row t is full from row w on
RollingFull(t, w) == t >= w

\* rolling(w).std(): sample standard deviation (ddof = 1) of a full window,
\* NaN when the window holds a single observation
VolIsNaN(t, volatility_window) ==
    ~RollingFull(t, volatility_window) \/ volatility_window - 1 <= 0

\* delta = Open.diff(): NaN in row 1
Delta(open, t) == open[t] - open[t - 1]

\* up = delta.clip(lower=0), down = -1 * delta.clip(upper=0), rows 2..
Up(open) == [t \in 2..Len(open) |-> Max(Delta(open, t), 0)]
Down(open) == [t \in 2..Len(open) |-> Max(-Delta(open, t), 0)]

\* ewm(com=14, adjust=False): alpha = 1 / (1 + com)
RsiCom == 14

\* .ewm(com=14, adjust=False).mean() of a series whose row 1 is NaN:
\* y[1] = NaN, y[2] = x[2], y[t] = (com * y[t-1] + x[t]) / (com + 1).
\* The value of row t >= 2, times (com + 1)^(t - 2), kept exactly.
RECURSIVE EwmMean(_, _)
EwmMean(x, t) ==
    IF t = 2 THEN x[2]
    ELSE RsiCom * EwmMean(x, t - 1) + x[t] * Pow(RsiCom + 1, t - 3)

\* rs = ema_up / ema_down; RSI = 100 - 100 / (1 + rs).  0 / 0 is NaN;
\* x / 0 with x > 0 is inf, which gives RSI = 100
RSIIsNaN(open, t) ==
    \/ t = 1
    \/ /\ EwmMean(Up(open), t) = 0
       /\ EwmMean(Down(open), t) = 0

\* Open.ewm(span=12).mean() - Open.ewm(span=26).mean(): defined in every row
MACDIsNaN(t) == FALSE

\* a shift(momentum_window - 1): one row short
MomIsNaNShortShift(t, momentum_window) == t < momentum_window

\* Open - Open.shift(momentum_window): the first momentum_window rows are NaN
MomIsNaN(t, momentum_window) == t <= momentum_window

\* rolling(ma_window).mean()
MAIsNaN(t, ma_window) == ~RollingFull(t, ma_window)

\* hist_data_all_stocks[i].dropna(): the labels of the rows without a NaN
DropNa(open, idx_labels, w) ==
    SelectSeq(idx_labels, LAMBDA t :
        ~(\/ VolIsNaN(t, w.vol)
          \/ RSIIsNaN(open, t)
          \/ MACDIsNaN(t)
          \/ MomIsNaN(t, w.mom)
          \/ MAIsNaN(t, w.ma)))

-----------------------------------------------------------------------------
(* The feature-combination cell *)

\* itertools.combinations(s, r): the r-length subsequences of s, in
\* lexicographic order of the positions they are taken from
RECURSIVE Combinations(_, _)
Combinations(s, r) ==
    IF r = 0 THEN << <<>> >>
    ELSE IF Len(s) < r THEN <<>>
    ELSE LET withHead == Combinations(Tail(s), r - 1)
             without == Combinations(Tail(s), r)
         IN [n \in 1..Len(withHead) |-> <<Head(s)>> \o withHead[n]] \o without

\* an inner loop that walks the combinations of one size from the last to the first
AppendSubsetsReversed(combos) ==
    LET kept == SelectSeq(combos, LAMBDA subset : Len(subset) # 0)
    IN [n \in 1..Len(kept) |-> Append(kept[Len(kept) + 1 - n], Close)]

\* the inner loop: every non-empty combination, with "Close" appended
AppendSubsets(combos) ==
    LET kept == SelectSeq(combos, LAMBDA subset : Len(subset) # 0)
    IN [n \in 1..Len(kept) |-> Append(kept[n], Close)]

\* a slice columns[1 : len(columns) - 1], which leaves the first column out
NFeaturesSkipFirst(cols) == SubSeq(cols, 2, Len(cols) - 1)

\* n_features = columns[0 : len(columns) - 1]
NFeatures(cols) == SubSeq(cols, 1, Len(cols) - 1)

\* the outer loop: for i in range(len(columns) + 1), here from i up to last
RECURSIVE CombinationLoop(_, _, _)
CombinationLoop(n_features, i, last) ==
    IF i > last THEN <<>>
    ELSE AppendSubsets(Combinations(n_features, i))
             \o CombinationLoop(n_features, i + 1, last)

\* a loop bound of range(len(columns) - 1): the full-size subset is never built
FeatureCombinationsShortRange(cols) ==
    CombinationLoop(NFeatures(cols), 0, Len(cols) - 2)

FeatureCombinations(cols) == CombinationLoop(NFeatures(cols), 0, Len(cols))

-----------------------------------------------------------------------------
(* Idle values of the variable groups a specification does not use *)

NoWindows == [vol |-> 0, mom |-> 0, ma |-> 0]

IdleRows ==
    /\ open_prices = <<>>
    /\ index = <<>>

EmptyMap == [k \in {} |-> 0]

IdleFetch ==
    /\ tickers = <<>>
    /\ fetch_outcome = EmptyMap
    /\ idx = 0
    /\ hist_data_all_stocks = <<>>
    /\ printed = <<>>

IdleLoops ==
    /\ train_test_all_stocks = <<>>
    /\ loop_i = 0
    /\ loop_j = 0
    /\ store = EmptyMap
    /\ reads = EmptyMap
    /\ results = <<>>
    /\ results_df = <<>>

NoScaler == [data_min |-> 0, data_max |-> 0]

IdleData ==
    /\ hist_data = <<>>
    /\ hist_data_non_stationary = <<>>
    /\ train_size = <<0, 1>>
    /\ CNN_input_vector_size = 0
    /\ feature_scaler = NoScaler
    /\ target_scaler = NoScaler
    /\ scaled_features = <<>>
    /\ scaled_target = <<>>
    /\ train_test = <<>>
    /\ evaluated = <<>>
    /\ y_test_direction_accuracy = <<>>
    /\ mape = <<>>

-----------------------------------------------------------------------------
(* SpecEnum: the feature-combination cell applied to any frame whose       *)
(* columns are k distinct indicator columns followed by the target.       *)

IndicatorNames ==
    {Open, Col("Vol", 20), Col("RSI", 0), Col("MACD", 0), Col("Mom", 20)}

InitEnum ==
    /\ pc = "enumerate"
    /\ \E k \in 0..MaxK : \E s \in DistinctSeqs(IndicatorNames, k) :
           columns = Append(s, Close)
    /\ windows = NoWindows
    /\ feature_combinations = <<>>
    /\ IdleRows
    /\ IdleFetch
    /\ IdleLoops
    /\ IdleData

FeatureCombinationCell ==
    /\ pc = "enumerate"
    /\ feature_combinations' = FeatureCombinations(columns)
    /\ pc' = "enumerated"
    /\ UNCHANGED <<columns, windows, open_prices, index, fetchVars, loopVars, dataVars>>

NextEnum == FeatureCombinationCell

SpecEnum == InitEnum /\ [][NextEnum]_vars

-----------------------------------------------------------------------------
(* SpecCols: the columns and the rows of the first frame through fetch,    *)
(* calc_technical_indicators and the feature-combination cell, for every   *)
(* choice of the three window arguments and every short Open series.       *)

\* the values an Open price may take
OpenValues == {1, 2}

InitCols ==
    /\ pc = "fetch"
    /\ columns = <<>>
    /\ windows \in [vol : WindowChoices, mom : WindowChoices, ma : WindowChoices]
    /\ feature_combinations = <<>>
    /\ \E n \in 0..MaxOpenRows : open_prices \in SeqsOf(OpenValues, n)
    /\ index = <<>>
    /\ IdleFetch
    /\ IdleLoops
    /\ IdleData

\* get_historical_stock_data, for a ticker whose fetch succeeds
FetchColumns ==
    /\ pc = "fetch"
    /\ columns' = DropColumns(ProviderColumns, DroppedColumns)
    /\ index' = PyRange(1, Len(open_prices) + 1)
    /\ pc' = "indicators"
    /\ UNCHANGED <<windows, feature_combinations, open_prices, fetchVars, loopVars, dataVars>>

CalcTechnicalIndicatorsColumns ==
    /\ pc = "indicators"
    /\ columns' = MoveTargetLast(AddIndicatorColumns(columns, windows))
    /\ index' = DropNa(open_prices, index, windows)
    /\ pc' = "enumerate"
    /\ UNCHANGED <<windows, feature_combinations, open_prices, fetchVars, loopVars, dataVars>>

NextCols ==
    \/ FetchColumns
    \/ CalcTechnicalIndicatorsColumns
    \/ FeatureCombinationCell

SpecCols == InitCols /\ [][NextCols]_vars

-----------------------------------------------------------------------------
(* SpecRun: one run of the notebook at the level of its lists and loops:   *)
(* the fetch loop, the cells that derive the datasets, the training loop,  *)
(* the evaluation loop.  The numeric content of a dataset is abstracted to *)
(* the pair (stock, subset) it was built from.                             *)

Tickers == {"AAPL", "MSFT", "AMZN"}

\* what the try block does for a ticker: both statements succeed, history()
\* raises (nothing was appended), or drop() raises (the frame was appended)
Outcomes == {"ok", "history_raises", "drop_raises"}

TickerLists == UNION {DistinctSeqs(Tickers, n) : n \in 0..Cardinality(Tickers)}

\* list.remove(x): delete the first occurrence of x
RECURSIVE RemoveFirst(_, _)
RemoveFirst(s, x) ==
    IF s = <<>> THEN <<>>
    ELSE IF Head(s) = x THEN Tail(s)
    ELSE <<Head(s)>> \o RemoveFirst(Tail(s), x)

InitRun ==
    /\ pc = "fetch"
    /\ columns = <<>>
    /\ windows = DefaultWindows
    /\ feature_combinations = <<>>
    /\ IdleRows
    /\ tickers \in TickerLists
    /\ fetch_outcome \in [Range(tickers) -> Outcomes]
    /\ idx = 0
    /\ hist_data_all_stocks = <<>>
    /\ printed = <<>>
    /\ IdleLoops
    /\ IdleData

\* one iteration of "for ticker in tickers": the list iterator hands out
\* tickers[idx] of the list as it is NOW and then advances
FetchStep ==
    /\ pc = "fetch"
    /\ idx < Len(tickers)
    /\ LET ticker == tickers[idx + 1]
           outcome == fetch_outcome[ticker]
       IN /\ idx' = idx + 1
          /\ hist_data_all_stocks' =
                 IF outcome = "history_raises" THEN hist_data_all_stocks
                 ELSE Append(hist_data_all_stocks,
                             [ticker |-> ticker, dropped |-> outcome = "ok"])
          /\ IF outcome = "ok"
             THEN UNCHANGED <<tickers, printed>>
             ELSE /\ tickers' = RemoveFirst(tickers, ticker)
                  /\ printed' = Append(printed, ticker)
    /\ UNCHANGED <<pc, colVars, fetch_outcome, loopVars, dataVars>>

\* the iterator is exhausted: return hist_data_all_stocks
FetchReturn ==
    /\ pc = "fetch"
    /\ idx >= Len(tickers)
    /\ pc' = "indicators"
    /\ UNCHANGED <<colVars, fetchVars, loopVars, dataVars>>

\* calc_technical_indicators over every frame.  A frame whose drop() raised
\* does not have the provider's columns; the run is taken to stop at this
\* first cell that reads them.
CalcTechnicalIndicatorsCell ==
    /\ pc = "indicators"
    /\ IF \E n \in 1..Len(hist_data_all_stocks) : ~hist_data_all_stocks[n].dropped
       THEN /\ pc' = "halted"
            /\ UNCHANGED columns
       ELSE /\ pc' = "enumerate_run"
            /\ columns' =
                   IF hist_data_all_stocks = <<>> THEN columns
                   ELSE MoveTargetLast(AddIndicatorColumns(
                            DropColumns(ProviderColumns, DroppedColumns), windows))
    /\ UNCHANGED <<windows, feature_combinations, open_prices, index, fetchVars,
                   loopVars, dataVars>>

\* the feature-combination cell reads hist_data_all_stocks_stationary[0]:
\* IndexError when no frame was fetched
FeatureCombinationCellRun ==
    /\ pc = "enumerate_run"
    /\ IF hist_data_all_stocks = <<>>
       THEN /\ pc' = "halted"
            /\ UNCHANGED feature_combinations
       ELSE /\ pc' = "datasets"
            /\ feature_combinations' = FeatureCombinations(columns)
    /\ UNCHANGED <<columns, windows, open_prices, index, fetchVars, loopVars, dataVars>>

\* the cells from the per-subset frames to the window formatting: one dataset
\* per (stock, subset), in the order of the two lists
Datasets(hist, fc) ==
    [s \in 1..Len(hist) |->
        [c \in 1..Len(fc) |-> [stock |-> hist[s].ticker, subset |-> c - 1]]]

DatasetCells ==
    /\ pc = "datasets"
    /\ train_test_all_stocks' = Datasets(hist_data_all_stocks, feature_combinations)
    /\ pc' = "train"
    /\ loop_i' = 0
    /\ loop_j' = 0
    /\ UNCHANGED <<colVars, fetchVars, store, reads, results, results_df, dataVars>>

\* f"model_{ticker}_{id}.h5"
ModelKey(ticker, id) == <<ticker, id>>

\* key used by save_model in the training loop and by load_pretrained_model
\* in the evaluation loop: (tickers[i], j)
LoopKey(tks, i, j) == ModelKey(tks[i + 1], j)

Writes(key) == IF key \in DOMAIN store THEN store[key].writes ELSE 0
Reads(key) == IF key \in DOMAIN reads THEN reads[key] ELSE 0

Put(f, k, v) == [x \in DOMAIN f \cup {k} |-> IF x = k THEN v ELSE f[x]]

\* the nested "for i ... for j ..." advances; TRUE when both loops are over
LastPair == /\ loop_j + 1 >= Len(train_test_all_stocks[loop_i + 1])
            /\ loop_i + 1 >= Len(train_test_all_stocks)

Advance ==
    IF loop_j + 1 < Len(train_test_all_stocks[loop_i + 1])
    THEN /\ loop_j' = loop_j + 1
         /\ loop_i' = loop_i
    ELSE /\ loop_j' = 0
         /\ loop_i' = IF LastPair THEN 0 ELSE loop_i + 1

\* a training loop whose body is wrapped in try / except: continue, so that a
\* failing pair is skipped and the sweep goes on
TrainStepIsolated ==
    /\ pc = "train"
    /\ \E raised \in BOOLEAN :
         IF loop_i + 1 > Len(tickers)
         THEN /\ pc' = "halted"
              /\ UNCHANGED <<loop_i, loop_j, store>>
         ELSE LET key == LoopKey(tickers, loop_i, loop_j)
                  pair == train_test_all_stocks[loop_i + 1][loop_j + 1]
              IN /\ store' = IF raised THEN store
                             ELSE Put(store, key,
                                      [trained_on |-> pair, writes |-> Writes(key) + 1])
                 /\ Advance
                 /\ pc' = IF LastPair THEN "evaluate" ELSE "train"
    /\ UNCHANGED <<colVars, fetchVars, train_test_all_stocks, reads, results, results_df,
                   dataVars>>

\* one iteration of the training loop: create_model, fit, save_model
TrainStep ==
    /\ pc = "train"
    /\ \E raised \in BOOLEAN :
         IF raised \/ loop_i + 1 > Len(tickers)
         THEN /\ pc' = "halted"
              /\ UNCHANGED <<loop_i, loop_j, store>>
         ELSE LET key == LoopKey(tickers, loop_i, loop_j)
                  pair == train_test_all_stocks[loop_i + 1][loop_j + 1]
              IN /\ store' = Put(store, key,
                                 [trained_on |-> pair, writes |-> Writes(key) + 1])
                 /\ Advance
                 /\ pc' = IF LastPair THEN "evaluate" ELSE "train"
    /\ UNCHANGED <<colVars, fetchVars, train_test_all_stocks, reads, results, results_df,
                   dataVars>>

\* one iteration of the evaluation loop: load_pretrained_model, predict,
\* accuracy, MAPE; a missing file or a failing computation halts the run
EvalStep ==
    /\ pc = "evaluate"
    /\ \E raised \in BOOLEAN :
         LET key == LoopKey(tickers, loop_i, loop_j)
             pair == train_test_all_stocks[loop_i + 1][loop_j + 1]
         IN IF raised \/ loop_i + 1 > Len(tickers) \/ key \notin DOMAIN store
            THEN /\ pc' = "halted"
                 /\ UNCHANGED <<loop_i, loop_j, reads, results>>
            ELSE /\ reads' = Put(reads, key, Reads(key) + 1)
                 /\ results' = Append(results,
                        [pair |-> pair, key |-> key, model |-> store[key].trained_on])
                 /\ Advance
                 /\ pc' = IF LastPair THEN "done" ELSE "evaluate"
    /\ UNCHANGED <<colVars, fetchVars, train_test_all_stocks, store, results_df, dataVars>>

\* np.array(values).reshape(-1, ncols): row r holds ncols consecutive values
Reshape(values, ncols) ==
    [r \in 1..(Len(values) \div ncols) |->
        SubSeq(values, (r - 1) * ncols + 1, r * ncols)]

\* pd.DataFrame(rows, index=labels): row r is labelled labels[r]
DataFrame(rows, labels) ==
    [r \in 1..Len(rows) |-> [label |-> labels[r], values |-> rows[r]]]

\* the cells that build results_df_direction and results_df_mae from the two
\* result lists (one record of results stands for the entry of each list):
\* reshape raises when the list does not fill whole rows, DataFrame raises
\* when index=tickers has another length than the rows
ResultsCells ==
    /\ pc = "done"
    /\ LET x_labels == Len(feature_combinations)
       IN IF \/ Len(results) % x_labels # 0
             \/ Len(tickers) # Len(Reshape(results, x_labels))
          THEN /\ pc' = "halted"
               /\ UNCHANGED results_df
          ELSE /\ pc' = "reported"
               /\ results_df' = DataFrame(Reshape(results, x_labels), tickers)
    /\ UNCHANGED <<colVars, fetchVars, train_test_all_stocks, loop_i, loop_j, store,
                   reads, results, dataVars>>

NextRun ==
    \/ FetchStep
    \/ FetchReturn
    \/ CalcTechnicalIndicatorsCell
    \/ FeatureCombinationCellRun
    \/ DatasetCells
    \/ TrainStep
    \/ EvalStep
    \/ ResultsCells

SpecRun == InitRun /\ [][NextRun]_vars

-----------------------------------------------------------------------------
(* C1: on k distinct indicator columns the cell produces 2^k - 1 entries,  *)
(* each ending with Close (which occurs in it exactly once), no two equal, *)
(* and the entries without Close are exactly the non-empty subsets of the  *)
(* input columns, one entry per subset.                                    *)

EntryFeatures(e) == Range(SubSeq(e, 1, Len(e) - 1))

C1_Enumeration ==
    pc = "enumerated" =>
        LET feats == Range(NFeatures(columns))
            fc == feature_combinations
        IN /\ Len(fc) = Pow2(Cardinality(feats)) - 1
           /\ \A n \in 1..Len(fc) :
                  /\ fc[n][Len(fc[n])] = Close
                  /\ Count(fc[n], Close) = 1
           /\ \A m, n \in 1..Len(fc) : m # n => fc[m] # fc[n]
           /\ {EntryFeatures(fc[n]) : n \in 1..Len(fc)} = (SUBSET feats) \ {{}}
           /\ Cardinality({EntryFeatures(fc[n]) : n \in 1..Len(fc)}) = Len(fc)

C1_Witness ==
    /\ pc = "enumerated"
    /\ Len(columns) = 4
    /\ Len(feature_combinations) = 7

-----------------------------------------------------------------------------
(* C2 (as stated): with the default pipeline the enumerator is handed      *)
(* exactly the 5 indicator columns, so there are 31 feature subsets,       *)
(* 31 trained models per ticker and 31 result pairs per ticker.            *)

DefaultIndicatorColumns ==
    <<Col("Vol", DefaultWindow), Col("RSI", 0), Col("MACD", 0),
      Col("Mom", DefaultWindow), Col("MA", DefaultWindow)>>

Stocks == {hist_data_all_stocks[n].ticker : n \in 1..Len(hist_data_all_stocks)}

ModelsOf(stock) == {k \in DOMAIN store : store[k].trained_on.stock = stock}
ResultsOf(stock) == {n \in 1..Len(results) : results[n].pair.stock = stock}

-----------------------------------------------------------------------------
(* C3: get_historical_stock_data returns normally, and on return every     *)
(* ticker whose fetch raises has been removed from the tickers list, with  *)
(* a message printed for it.                                               *)

Raising(t) == fetch_outcome[t] # "ok"

C3_FailedTickersRemoved ==
    pc = "indicators" =>
        \A t \in DOMAIN fetch_outcome :
            Raising(t) => /\ t \notin Range(tickers)
                          /\ t \in Range(printed)

-----------------------------------------------------------------------------
(* C8: in a completed run every key (ticker, subset-index) of a pair       *)
(* (stock, subset) is written exactly once and read exactly once, and the  *)
(* artifact read for a pair is the one trained on that pair.  (Reads come  *)
(* after writes by construction: the evaluation loop starts when the       *)
(* training loop is over.)                                                 *)

SubsetIndices == 0..(Len(feature_combinations) - 1)

C8_StoreProtocol ==
    pc = "done" =>
        /\ \A t \in Stocks : \A id \in SubsetIndices :
               /\ Writes(ModelKey(t, id)) = 1
               /\ Reads(ModelKey(t, id)) = 1
               /\ store[ModelKey(t, id)].trained_on = [stock |-> t, subset |-> id]
        /\ \A n \in 1..Len(results) : results[n].model = results[n].pair

-----------------------------------------------------------------------------
(* The numeric pipeline of one (stock, subset) pair.  A frame is a list of *)
(* rows <<feature, Close>> of integers: one feature column and the target. *)
(* A scaled value v / d is kept exactly, as <<v, d>>; floating-point       *)
(* rounding is not modelled.                                               *)

SetMin(S) == CHOOSE x \in S : \A y \in S : x <= y
SetMax(S) == CHOOSE x \in S : \A y \in S : x >= y
Abs(x) == IF x < 0 THEN -x ELSE x

\* a difference taken the wrong way round: row[t-1] - row[t]
DiffReversed(rows) ==
    [t \in 1..(Len(rows) - 1) |->
        <<rows[t][1] - rows[t + 1][1], rows[t][2] - rows[t + 1][2]>>]

\* DataFrame.diff().dropna(): row[t] - row[t-1], the undefined first row dropped
Diff(rows) ==
    [t \in 1..(Len(rows) - 1) |->
        <<rows[t + 1][1] - rows[t][1], rows[t + 1][2] - rows[t][2]>>]

\* .loc[:, ~columns.isin(['Close'])] and .loc[:, columns.isin(['Close'])]
FeatureColumn(rows) == [t \in 1..Len(rows) |-> rows[t][1]]
TargetColumn(rows) == [t \in 1..Len(rows) |-> rows[t][2]]

\* MinMaxScaler.fit: data_min_ and data_max_ of the column it is given
Fit(column) ==
    [data_min |-> SetMin(Range(column)), data_max |-> SetMax(Range(column))]

\* data_range_, with sklearn's replacement of a zero range by 1
DataRange(scaler) ==
    IF scaler.data_max = scaler.data_min THEN 1
    ELSE scaler.data_max - scaler.data_min

\* MinMaxScaler.transform: X * scale_ + min_ = (X - data_min_) / data_range_
Transform(scaler, x) == <<x - scaler.data_min, DataRange(scaler)>>

\* MinMaxScaler.inverse_transform: (X - min_) / scale_ = X * data_range_ + data_min_
InverseTransform(scaler, v) == (v[1] * DataRange(scaler)) \div v[2] + scaler.data_min

TransformAll(scaler, column) ==
    [t \in 1..Len(column) |-> Transform(scaler, column[t])]
InverseTransformAll(scaler, column) ==
    [t \in 1..Len(column) |-> InverseTransform(scaler, column[t])]

\* train_test_split(..., train_size=f, shuffle=False): n_train = floor(f * n),
\* train = the first n_train rows, test = the rest
NTrain(n, ts) == (ts[1] * n) \div ts[2]

\* a split that hands out the training rows newest first
TrainTestSplitReversed(arr, ts) ==
    LET n_train == NTrain(Len(arr), ts)
    IN [train |-> [t \in 1..n_train |-> arr[n_train + 1 - t]],
        test |-> SubSeq(arr, n_train + 1, Len(arr))]

TrainTestSplit(arr, ts) ==
    LET n_train == NTrain(Len(arr), ts)
    IN [train |-> SubSeq(arr, 1, n_train),
        test |-> SubSeq(arr, n_train + 1, Len(arr))]

\* range(CNN_input_vector_size, len(x_values) - 1): a loop that stops one short
FormatIndicesShort(n, L) == PyRange(L, n - 1)

\* the indices i of format_dataset's loop: range(CNN_input_vector_size, len(x_values))
FormatIndices(n, L) == PyRange(L, n)

\* a window x_values[i - L + 1 : i + 1], which holds the row of its own label
FormatDatasetLabelInWindow(x_values, y_values, L) ==
    LET indices == FormatIndices(Len(x_values), L)
    IN [dataX |-> [k \in 1..Len(indices) |->
                      SubSeq(x_values, indices[k] - L + 2, indices[k] + 1)],
        dataY |-> [k \in 1..Len(indices) |-> y_values[indices[k] + 1]]]

\* format_dataset: dataX[k] = x_values[i - L : i], dataY[k] = y_values[i]
FormatDataset(x_values, y_values, L) ==
    LET indices == FormatIndices(Len(x_values), L)
    IN [dataX |-> [k \in 1..Len(indices) |->
                      SubSeq(x_values, indices[k] - L + 1, indices[k])],
        dataY |-> [k \in 1..Len(indices) |-> y_values[indices[k] + 1]]]

\* np.sign on integers, zero counted with the positive values
SignNonNegative(x) == IF x >= 0 THEN 1 ELSE -1

\* np.sign
Sign(x) == IF x > 0 THEN 1 ELSE IF x < 0 THEN -1 ELSE 0

RECURSIVE SumSeq(_)
SumSeq(s) == IF s = <<>> THEN 0 ELSE Head(s) + SumSeq(Tail(s))

RECURSIVE ProdSeq(_)
ProdSeq(s) == IF s = <<>> THEN 1 ELSE Head(s) * ProdSeq(Tail(s))

\* calc_mape: np.mean(np.abs((actual - predicted) / actual)) * 100 on float
\* arrays.  A division by zero raises nothing: x / 0 is inf, 0 / 0 is nan, and
\* the mean of terms holding a nan is nan, else of terms holding an inf is inf.
\* A finite mean is kept as <<numerator, denominator>>.
CalcMape(actual, predicted) ==
    LET n == Len(actual)
        err == [k \in 1..n |-> Abs(actual[k] - predicted[k])]
        den == [k \in 1..n |-> Abs(actual[k])]
    IN IF \E k \in 1..n : den[k] = 0 /\ err[k] = 0 THEN [kind |-> "nan"]
       ELSE IF \E k \in 1..n : den[k] = 0 THEN [kind |-> "inf"]
       ELSE [kind |-> "finite",
             value |-> <<100 * SumSeq([k \in 1..n |->
                                err[k] * (ProdSeq(den) \div den[k])]),
                         n * ProdSeq(den)>>]

\* the level added back to prediction k (k counted from 0):
\* Close.iloc[len(Close) - len(pred_rescaled) + k]
LevelIndex(len_close, len_pred, k) == len_close - len_pred + k + 1

\* one iteration of the evaluation loop, from the prediction to the appended results
Evaluate(scaler, y_test, prediction, close) ==
    LET y_test_rescaled == InverseTransformAll(scaler, y_test)
        pred_rescaled == InverseTransformAll(scaler, prediction)
        n == Len(pred_rescaled)
        level == [k \in 1..n |-> close[LevelIndex(Len(close), n, k - 1)]]
        pred_inv == [k \in 1..n |-> level[k] + pred_rescaled[k]]
        y_inv == [k \in 1..n |-> level[k] + y_test_rescaled[k]]
    IN [pred |-> prediction,
        pred_rescaled |-> pred_rescaled,
        y_test_rescaled |-> y_test_rescaled,
        same_direction |->
            Cardinality({k \in 1..n : Sign(pred_rescaled[k]) = Sign(y_test_rescaled[k])}),
        pred_rescaled_inversed_difference |-> pred_inv,
        y_test_rescaled_inversed_difference |-> y_inv,
        mape |-> CalcMape(y_inv, pred_inv)]

-----------------------------------------------------------------------------
(* SpecData: the cells from the non-stationary copy to the evaluation, for *)
(* one (stock, subset) pair, on every small frame.                         *)

\* the values a cell of the frame may hold
FeatureValues == {1, 2}
CloseValues == {1, 2}
RowValues == FeatureValues \X CloseValues

\* train_size: 0.8 is the default of split_data
TrainSizes == {<<1, 2>>, <<4, 5>>}

\* the rescaled values a prediction may take
PredictedChanges == {-1, 0, 1}

InitData ==
    /\ pc = "copy"
    /\ columns = <<>>
    /\ windows = NoWindows
    /\ feature_combinations = <<>>
    /\ IdleRows
    /\ IdleFetch
    /\ IdleLoops
    /\ \E n \in MinRows..MaxRows : hist_data \in SeqsOf(RowValues, n)
    /\ hist_data_non_stationary = <<>>
    /\ train_size \in TrainSizes
    /\ CNN_input_vector_size \in 1..MaxLookback
    /\ feature_scaler = NoScaler
    /\ target_scaler = NoScaler
    /\ scaled_features = <<>>
    /\ scaled_target = <<>>
    /\ train_test = <<>>
    /\ evaluated = <<>>
    /\ y_test_direction_accuracy = <<>>
    /\ mape = <<>>

\* hist_data_all_stocks_non_stationary.append(hist_data_all_stocks[i].copy())
CopyCell ==
    /\ pc = "copy"
    /\ hist_data_non_stationary' = hist_data
    /\ pc' = "stationary"
    /\ UNCHANGED <<colVars, fetchVars, loopVars, hist_data, train_size,
                   CNN_input_vector_size, feature_scaler, target_scaler,
                   scaled_features, scaled_target, train_test, evaluated,
                   y_test_direction_accuracy, mape>>

\* a make_stationary whose differencing also reaches the frames of
\* hist_data_all_stocks_non_stationary (the two lists sharing their frames)
MakeStationaryShared ==
    /\ pc = "stationary"
    /\ hist_data' = Diff(hist_data)
    /\ hist_data_non_stationary' = Diff(hist_data_non_stationary)
    /\ pc' = "scale"
    /\ UNCHANGED <<colVars, fetchVars, loopVars, train_size,
                   CNN_input_vector_size, feature_scaler, target_scaler,
                   scaled_features, scaled_target, train_test, evaluated,
                   y_test_direction_accuracy, mape>>

\* make_stationary: hist_data_all_stocks[i] = hist_data_all_stocks[i].diff().dropna()
MakeStationary ==
    /\ pc = "stationary"
    /\ hist_data' = Diff(hist_data)
    /\ pc' = "scale"
    /\ UNCHANGED <<colVars, fetchVars, loopVars, hist_data_non_stationary, train_size,
                   CNN_input_vector_size, feature_scaler, target_scaler,
                   scaled_features, scaled_target, train_test, evaluated,
                   y_test_direction_accuracy, mape>>

\* scale_values: both scalers are fitted on, and applied to, every row of the
\* frame; MinMaxScaler raises on a frame without rows
ScaleValues ==
    /\ pc = "scale"
    /\ IF hist_data = <<>>
       THEN /\ pc' = "halted"
            /\ UNCHANGED <<feature_scaler, target_scaler, scaled_features, scaled_target>>
       ELSE /\ feature_scaler' = Fit(FeatureColumn(hist_data))
            /\ scaled_features' = TransformAll(feature_scaler', FeatureColumn(hist_data))
            /\ target_scaler' = Fit(TargetColumn(hist_data))
            /\ scaled_target' = TransformAll(target_scaler', TargetColumn(hist_data))
            /\ pc' = "split"
    /\ UNCHANGED <<colVars, fetchVars, loopVars, hist_data, hist_data_non_stationary,
                   train_size, CNN_input_vector_size, train_test, evaluated,
                   y_test_direction_accuracy, mape>>

\* split_data: train_test_split raises when the training set would be empty
SplitData ==
    /\ pc = "split"
    /\ IF NTrain(Len(scaled_features), train_size) = 0
       THEN /\ pc' = "halted"
            /\ UNCHANGED train_test
       ELSE LET x == TrainTestSplit(scaled_features, train_size)
                y == TrainTestSplit(scaled_target, train_size)
            IN /\ train_test' = <<x.train, x.test, y.train, y.test>>
               /\ pc' = "format"
    /\ UNCHANGED <<colVars, fetchVars, loopVars, hist_data, hist_data_non_stationary,
                   train_size, CNN_input_vector_size, feature_scaler, target_scaler,
                   scaled_features, scaled_target, evaluated,
                   y_test_direction_accuracy, mape>>

\* the window-formatting cell: format_dataset on the train half, then on the test half
FormatCell ==
    /\ pc = "format"
    /\ LET train == FormatDataset(train_test[1], train_test[3], CNN_input_vector_size)
           test == FormatDataset(train_test[2], train_test[4], CNN_input_vector_size)
       IN train_test' = <<train.dataX, test.dataX, train.dataY, test.dataY>>
    /\ pc' = "fit"
    /\ UNCHANGED <<colVars, fetchVars, loopVars, hist_data, hist_data_non_stationary,
                   train_size, CNN_input_vector_size, feature_scaler, target_scaler,
                   scaled_features, scaled_target, evaluated,
                   y_test_direction_accuracy, mape>>

\* the training-loop iteration of the pair: x_train.shape[1] raises on an empty
\* training set, and create_model / fit may raise
FitModel ==
    /\ pc = "fit"
    /\ \E raised \in BOOLEAN :
           pc' = IF raised \/ train_test[1] = <<>> THEN "halted" ELSE "evaluate_pair"
    /\ UNCHANGED <<colVars, fetchVars, loopVars, dataVars>>

\* the evaluation-loop iteration of the pair; inverse_transform raises on the
\* one-dimensional array an empty test set was formatted to
EvaluatePair ==
    /\ pc = "evaluate_pair"
    /\ IF train_test[4] = <<>>
       THEN /\ pc' = "halted"
            /\ UNCHANGED <<evaluated, y_test_direction_accuracy, mape>>
       ELSE \E changes \in SeqsOf(PredictedChanges, Len(train_test[2])) :
              LET prediction == TransformAll(target_scaler, changes)
                  e == Evaluate(target_scaler, train_test[4], prediction,
                                TargetColumn(hist_data_non_stationary))
              IN /\ evaluated' = e
                 /\ y_test_direction_accuracy' =
                        Append(y_test_direction_accuracy,
                               <<e.same_direction, Len(e.pred_rescaled)>>)
                 /\ mape' = Append(mape, e.mape)
                 /\ pc' = "evaluated"
    /\ UNCHANGED <<colVars, fetchVars, loopVars, hist_data, hist_data_non_stationary,
                   train_size, CNN_input_vector_size, feature_scaler, target_scaler,
                   scaled_features, scaled_target, train_test>>

NextData ==
    \/ CopyCell
    \/ MakeStationary
    \/ ScaleValues
    \/ SplitData
    \/ FormatCell
    \/ FitModel
    \/ EvaluatePair

SpecData == InitData /\ [][NextData]_vars

-----------------------------------------------------------------------------
(* C4: the scalers' min/max are determined by the training-period rows     *)
(* only: a run whose series differs from this one only in its last row     *)
(* (which the chronological split always puts in the test slice) fits the  *)
(* same feature scaler and the same target scaler.                         *)

ReplaceLast(rows, r) == [rows EXCEPT ![Len(rows)] = r]

C4_NoTestLeakage ==
    pc = "format" =>
        \A r \in RowValues :
            LET other == Diff(ReplaceLast(hist_data_non_stationary, r))
            IN /\ train_test[2] # <<>>
               /\ Fit(FeatureColumn(other)) = feature_scaler
               /\ Fit(TargetColumn(other)) = target_scaler

-----------------------------------------------------------------------------
(* C5: every reconstructed prediction is the last-known non-differenced    *)
(* Close (the level just before the differenced value being predicted)     *)
(* plus the inverse-scaled differenced value, so the reconstructed         *)
(* held-out series equals the original Close at the predicted positions.   *)

\* the row of the differenced frame that test sample k (from 1) is the label of:
\* the samples are the last len(pred) rows
LabelRow(k) == Len(hist_data) - Len(evaluated.pred) + k

\* LabelRow is the row the code's label is taken from: holds throughout SpecData
LabelRowIsLabel ==
    pc = "evaluated" =>
        \A k \in 1..Len(evaluated.pred) :
            evaluated.y_test_rescaled[k] = hist_data[LabelRow(k)][2]

C5_Reconstruction ==
    pc = "evaluated" =>
        LET close == TargetColumn(hist_data_non_stationary)
        IN \A k \in 1..Len(evaluated.pred) :
               \* differenced row t is close[t + 1] - close[t]
               /\ evaluated.pred_rescaled_inversed_difference[k]
                      = close[LabelRow(k)] + evaluated.pred_rescaled[k]
               /\ evaluated.y_test_rescaled_inversed_difference[k]
                      = close[LabelRow(k) + 1]

-----------------------------------------------------------------------------
(* C6 (as stated): when every inverse-scaled prediction is zero change,    *)
(* the directional accuracy is the fraction of test samples whose true     *)
(* differenced value is non-negative.                                      *)

ZeroChangePredicted ==
    /\ pc = "evaluated"
    /\ \A k \in 1..Len(evaluated.pred) : evaluated.pred_rescaled[k] = 0

LastAccuracy == y_test_direction_accuracy[Len(y_test_direction_accuracy)]

TrueChangesWhere(P(_)) ==
    {k \in 1..Len(evaluated.pred) : P(evaluated.y_test_rescaled[k])}

NonNegative(x) == x >= 0
IsZero(x) == x = 0

C6_ZeroPredictionNonNegative ==
    ZeroChangePredicted =>
        LastAccuracy = <<Cardinality(TrueChangesWhere(NonNegative)),
                         Len(evaluated.pred)>>

(* C6 (amended): when every inverse-scaled prediction is zero change, the  *)
(* directional accuracy is the fraction of test samples whose true         *)
(* differenced value is exactly zero.                                      *)
C6_ZeroPredictionZero ==
    ZeroChangePredicted =>
        LastAccuracy = <<Cardinality(TrueChangesWhere(IsZero)),
                         Len(evaluated.pred)>>

C6_Witness ==
    /\ ZeroChangePredicted
    /\ Len(evaluated.pred) = 2
    /\ \E k \in 1..2 : evaluated.y_test_rescaled[k] > 0
    /\ \E k \in 1..2 : evaluated.y_test_rescaled[k] = 0
    /\ LastAccuracy = <<1, 2>>

-----------------------------------------------------------------------------
(* C7: whenever a reconstructed actual value handed to calc_mape is zero,  *)
(* no MAPE is recorded for the pair: the run halts instead.                *)

C7_ZeroActualHalts ==
    (/\ evaluated # <<>>
     /\ \E k \in 1..Len(evaluated.pred) :
            evaluated.y_test_rescaled_inversed_difference[k] = 0)
        => /\ mape = <<>>
           /\ pc = "halted"

-----------------------------------------------------------------------------
(* C9: split_data puts the first floor(train_size * n) rows into train and *)
(* the remaining rows into test, in order, features and targets at the     *)
(* same boundary: train followed by test is the input.                     *)

C9_ChronologicalSplit ==
    pc = "format" =>
        LET n == Len(scaled_features)
            boundary == (train_size[1] * n) \div train_size[2]
        IN /\ train_test[1] \o train_test[2] = scaled_features
           /\ train_test[3] \o train_test[4] = scaled_target
           /\ Len(train_test[1]) = boundary
           /\ Len(train_test[3]) = boundary
           /\ boundary >= 1

C9_Witness ==
    /\ pc = "format"
    /\ Len(train_test[1]) >= 2
    /\ Len(train_test[2]) >= 2
    /\ train_test[1][1] # train_test[1][2]
    /\ train_test[3][1] # train_test[3][2]

-----------------------------------------------------------------------------
(* C10: format_dataset on N rows with lookback L >= 1 returns N - L        *)
(* windows and N - L labels when L < N, and nothing when L >= N.           *)

ExpectedSamples(N, L) == IF L < N THEN N - L ELSE 0

C10_SampleCount ==
    pc = "fit" =>
        LET n == Len(scaled_features)
            n_train == (train_size[1] * n) \div train_size[2]
            n_test == n - n_train
            L == CNN_input_vector_size
        IN /\ L >= 1
           /\ Len(train_test[1]) = ExpectedSamples(n_train, L)
           /\ Len(train_test[3]) = ExpectedSamples(n_train, L)
           /\ Len(train_test[2]) = ExpectedSamples(n_test, L)
           /\ Len(train_test[4]) = ExpectedSamples(n_test, L)
           /\ \A k \in 1..Len(train_test[1]) : Len(train_test[1][k]) = L
           /\ \A k \in 1..Len(train_test[2]) : Len(train_test[2][k]) = L

C10_Witness ==
    /\ pc = "fit"
    /\ CNN_input_vector_size = 2
    /\ Len(train_test[1]) = 2
    /\ Len(train_test[3]) = 2
    /\ Len(scaled_features) = 5
    /\ train_test[2] = <<>>

-----------------------------------------------------------------------------
(* C11 (as stated): for every series and every choice of the three windows *)
(* the number of rows calc_technical_indicators returns is the input row   *)
(* count minus the largest of the three windows.                           *)

IndicatorsDone == pc \in {"enumerate", "enumerated"} /\ open_prices # <<>>

LargestWindow == Max(Max(windows.vol, windows.mom), windows.ma)

C11_InputMinusLargestWindow ==
    IndicatorsDone => Len(index) = Len(open_prices) - LargestWindow

\* the number of leading rows over which Open has not changed yet
FlatPrefix(open) ==
    LET changes == {t \in 2..Len(open) : open[t] # open[t - 1]}
    IN IF changes = {} THEN Len(open) ELSE SetMin(changes) - 1

\* the rows without a value, per indicator, and the longest of these warm-ups
WarmUp ==
    LET vol == IF windows.vol = 1 THEN Len(open_prices) ELSE windows.vol - 1
        rsi == FlatPrefix(open_prices)
        mom == windows.mom
        ma == windows.ma - 1
    IN Max(Max(vol, rsi), Max(mom, ma))

(* C11 (amended): the rows returned are the input rows after the longest   *)
(* indicator warm-up, so their number is the input row count minus that    *)
(* warm-up, and zero when the series is not longer than it.  The warm-ups  *)
(* are volatility_window - 1 rows (every row when volatility_window is 1), *)
(* momentum_window rows, ma_window - 1 rows, and for the RSI the leading   *)
(* rows over which Open has not changed yet (at least the first row).      *)
C11_InputMinusWarmUp ==
    IndicatorsDone =>
        /\ index = PyRange(WarmUp + 1, Len(open_prices) + 1)
        /\ Len(index) = Max(0, Len(open_prices) - WarmUp)

\* volatility_window is the largest window and one more row than the claim
\* says is returned
C11_Witness ==
    /\ IndicatorsDone
    /\ windows = [vol |-> 3, mom |-> 1, ma |-> 2]
    /\ Len(open_prices) = 5
    /\ open_prices[1] # open_prices[2]
    /\ index = <<3, 4, 5>>

-----------------------------------------------------------------------------
(* C12: make_stationary returns N - 1 rows for a series of N rows, and the *)
(* first row of the retained non-stationary series plus the running sum of *)
(* the differenced rows is, row by row, the original series.               *)

\* the first retained row plus the first n differenced rows, column by column
RECURSIVE CumulativeRow(_)
CumulativeRow(n) ==
    IF n = 0 THEN hist_data_non_stationary[1]
    ELSE <<CumulativeRow(n - 1)[1] + hist_data[n][1],
           CumulativeRow(n - 1)[2] + hist_data[n][2]>>

Differenced == pc \notin {"copy", "stationary"}

-----------------------------------------------------------------------------
(* C13: calc_technical_indicators leaves Close as the last column, keeps   *)
(* the other columns in their relative order (the columns it was given,    *)
(* then the indicator columns in the order they are computed), and loses   *)
(* or duplicates no column.                                                *)

NoDuplicates(s) == \A m, n \in 1..Len(s) : m # n => s[m] # s[n]

\* s is t with some elements left out: the elements of s occur in t in the same order
RECURSIVE IsSubsequence(_, _)
IsSubsequence(s, t) ==
    IF s = <<>> THEN TRUE
    ELSE IF t = <<>> THEN FALSE
    ELSE IF Head(s) = Head(t) THEN IsSubsequence(Tail(s), Tail(t))
    ELSE IsSubsequence(s, Tail(t))

IndicatorColumns(w) ==
    <<Col("Vol", w.vol), Col("RSI", 0), Col("MACD", 0), Col("Mom", w.mom), Col("MA", w.ma)>>

C13_TargetLast ==
    [][pc = "indicators" =>
          /\ columns'[Len(columns')] = Close
          /\ NoDuplicates(columns')
          /\ Range(columns') = Range(columns) \cup Range(IndicatorColumns(windows))
          /\ Len(columns') = Len(columns) + 5
          /\ IsSubsequence(Without(columns, Close), columns')
          /\ SubSeq(columns', 1, Len(columns') - 1)
                 = Without(columns, Close) \o IndicatorColumns(windows)]_vars

C13_Witness ==
    /\ pc = "enumerate"
    /\ windows = [vol |-> 2, mom |-> 3, ma |-> 3]
    /\ columns = <<Open, Col("Vol", 2), Col("RSI", 0), Col("MACD", 0),
                   Col("Mom", 3), Col("MA", 3), Close>>

-----------------------------------------------------------------------------
(* C14: feature_combinations lists the subsets by size ascending and,      *)
(* within one size, in lexicographic order of the column positions, each   *)
(* entry keeping the columns in their original order; so the index of a    *)
(* subset is the number of subsets that come before it in that order, a    *)
(* function of the ordered column list alone.                              *)

\* the position of column c in the list cols (of distinct columns)
PositionIn(cols, c) == CHOOSE p \in 1..Len(cols) : cols[p] = c

\* the column positions of the features of entry e, in the order e lists them
EntryPositions(cols, e) == [k \in 1..(Len(e) - 1) |-> PositionIn(cols, e[k])]

StrictlyIncreasing(s) == \A k \in 1..(Len(s) - 1) : s[k] < s[k + 1]

\* lexicographic order on sequences of one length
RECURSIVE LexLess(_, _)
LexLess(a, b) ==
    IF a = <<>> \/ b = <<>> THEN FALSE
    ELSE IF Head(a) # Head(b) THEN Head(a) < Head(b)
    ELSE LexLess(Tail(a), Tail(b))

\* the elements of a set of numbers, ascending
RECURSIVE SortedSeq(_)
SortedSeq(S) ==
    IF S = {} THEN <<>>
    ELSE LET least == CHOOSE x \in S : \A y \in S : x <= y
         IN <<least>> \o SortedSeq(S \ {least})

ComesBefore(T, S) ==
    \/ Cardinality(T) < Cardinality(S)
    \/ /\ Cardinality(T) = Cardinality(S)
       /\ LexLess(SortedSeq(T), SortedSeq(S))

\* the 0-based index of the subset with positions S among the non-empty
\* subsets of k columns
SubsetIndex(k, S) ==
    Cardinality({T \in (SUBSET (1..k)) \ {{}} : ComesBefore(T, S)})

C14_EnumerationOrder ==
    pc = "enumerated" =>
        \A n \in 1..Len(feature_combinations) :
            LET positions == EntryPositions(columns, feature_combinations[n])
            IN /\ StrictlyIncreasing(positions)
               /\ SubsetIndex(Len(columns) - 1, Range(positions)) = n - 1
               /\ n > 1 =>
                      LET before == EntryPositions(columns, feature_combinations[n - 1])
                      IN \/ Len(before) < Len(positions)
                         \/ /\ Len(before) = Len(positions)
                            /\ LexLess(before, positions)

\* four feature columns: the sixth entry is the pair (columns 1 and 3)
C14_Witness ==
    /\ pc = "enumerated"
    /\ Len(columns) = 5
    /\ feature_combinations[6] = <<columns[1], columns[3], Close>>
    /\ feature_combinations[15] = columns

-----------------------------------------------------------------------------
(* C15: in each split, every i in [L, length) yields the sample at output  *)
(* position i - L, whose input is rows i-L .. i-1 of that split's features *)
(* and whose label is row i of that split's target.  In terms of the rows  *)
(* of the scaled series (train slice = rows 1..n_train, test slice = the   *)
(* rest): every row of a training window and every training label is a    *)
(* train-slice row, every row of a test window and every test label is a   *)
(* test-slice row.                                                         *)

\* rows (from 1) first..last of the series lie in the slice lo..hi
RowsWithin(first, last, lo, hi) == lo <= first /\ last <= hi

\* sample k (from 1) of a split that starts after row offset and has length rows:
\* i = L + k - 1, window = rows i-L .. i-1 and label = row i of the split (from 0)
SampleInSplit(dataX, dataY, k, offset, length) ==
    LET L == CNN_input_vector_size
        i == L + k - 1
        first == offset + (i - L) + 1
        last == offset + (i - 1) + 1
        label == offset + i + 1
    IN /\ RowsWithin(first, label, offset + 1, offset + length)
       /\ dataX[k] = [r \in 1..L |-> scaled_features[first + r - 1]]
       /\ last - first + 1 = L
       /\ dataY[k] = scaled_target[label]

C15_WindowsInsideSplit ==
    pc = "fit" =>
        LET n == Len(scaled_features)
            n_train == (train_size[1] * n) \div train_size[2]
            n_test == n - n_train
            L == CNN_input_vector_size
        IN /\ Len(train_test[1]) = Max(0, n_train - L)
           /\ Len(train_test[3]) = Len(train_test[1])
           /\ Len(train_test[2]) = Max(0, n_test - L)
           /\ Len(train_test[4]) = Len(train_test[2])
           /\ \A k \in 1..Len(train_test[1]) :
                  SampleInSplit(train_test[1], train_test[3], k, 0, n_train)
           /\ \A k \in 1..Len(train_test[2]) :
                  SampleInSplit(train_test[2], train_test[4], k, n_train, n_test)

\* 5 differenced rows, 4 of them train rows: two training windows of two
\* rows each, the last label being the last train row
C15_Witness ==
    /\ pc = "fit"
    /\ CNN_input_vector_size = 2
    /\ Len(scaled_features) = 5
    /\ Len(train_test[1]) = 2
    /\ train_test[1][2] = <<scaled_features[2], scaled_features[3]>>
    /\ train_test[3][2] = scaled_target[4]
    /\ scaled_target[4] # scaled_target[5]
    /\ scaled_features[3] # scaled_features[4]

-----------------------------------------------------------------------------
(* C16: the retained series is the series as it was before differencing,   *)
(* and neither make_stationary nor any later cell up to the evaluation     *)
(* changes it: same rows, same values, same row count.                     *)

C16_RetainedOriginalUntouched ==
    [][/\ pc = "copy" => hist_data_non_stationary' = hist_data
       /\ pc # "copy" => hist_data_non_stationary' = hist_data_non_stationary
       /\ pc = "stationary" =>
              /\ Len(hist_data_non_stationary') = Len(hist_data') + 1
              /\ hist_data_non_stationary' = hist_data]_vars

\* evaluated, with a differenced series that differs from the retained one
C16_Witness ==
    /\ pc = "evaluated"
    /\ Len(hist_data_non_stationary) = 5
    /\ hist_data_non_stationary[1] = <<1, 2>>
    /\ hist_data_non_stationary[5] = <<2, 1>>
    /\ hist_data[1] # <<0, 0>>

-----------------------------------------------------------------------------
(* C17: the training loop visits the pairs stock by stock and, within a    *)
(* stock, subset by subset: when it is at a pair, models are saved for     *)
(* exactly the pairs before it in that order.  If the iteration fails, the *)
(* loop ends there with nothing saved for the pair (and so for no later    *)
(* pair) and the saved artifacts as they were; if it succeeds, exactly the *)
(* model of the pair is added and the earlier artifacts stay as they were. *)

\* the pairs the nested loop visits before it is at (i, j)
PairsBefore(i, j) ==
    LET visited == {sc \in (1..Len(train_test_all_stocks)) \X (1..Len(feature_combinations)) :
                       \/ sc[1] - 1 < i
                       \/ sc[1] - 1 = i /\ sc[2] - 1 < j}
    IN {train_test_all_stocks[sc[1]][sc[2]] : sc \in visited}

TrainedPairs == {store[k].trained_on : k \in DOMAIN store}

C17_TrainingFailureAborts ==
    [][pc = "train" =>
          LET pair == train_test_all_stocks[loop_i + 1][loop_j + 1]
          IN /\ TrainedPairs = PairsBefore(loop_i, loop_j)
             /\ pair = [stock |-> hist_data_all_stocks[loop_i + 1].ticker,
                        subset |-> loop_j]
             /\ pc' = "halted" => store' = store
             /\ pc' # "halted" =>
                    /\ TrainedPairs' = TrainedPairs \cup {pair}
                    /\ pair \notin TrainedPairs
                    /\ \A k \in DOMAIN store : k \in DOMAIN store' /\ store'[k] = store[k]
             /\ pc' = "train" => TrainedPairs' = PairsBefore(loop_i', loop_j')]_vars

\* two stocks; the third pair of the second stock failed: 63 + 2 models are
\* saved and nothing was evaluated
C17_Witness ==
    /\ pc = "halted"
    /\ Len(hist_data_all_stocks) = 2
    /\ loop_i = 1
    /\ loop_j = 2
    /\ Cardinality(DOMAIN store) = 65
    /\ reads = EmptyMap
    /\ results = <<>>

-----------------------------------------------------------------------------
(* C18: when get_historical_stock_data returns, tickers and the returned   *)
(* list have the same length, entry n of the list is the data fetched for  *)
(* tickers[n], and every ticker whose fetch succeeds has been fetched.     *)

C18_TickersAlignedWithData ==
    pc = "indicators" =>
        /\ Len(tickers) = Len(hist_data_all_stocks)
        /\ \A n \in 1..Len(hist_data_all_stocks) :
               n <= Len(tickers) => hist_data_all_stocks[n].ticker = tickers[n]
        /\ \A t \in DOMAIN fetch_outcome :
               fetch_outcome[t] = "ok" => t \in Stocks

-----------------------------------------------------------------------------
(* C19: after the evaluation loop has completed for S stocks and C feature *)
(* subsets, the result lists hold S * C entries, the entry at position     *)
(* i * C + j is the one of (stock i, subset j), and the frame built from   *)
(* them with index=tickers has stock i's results in the row labelled       *)
(* tickers[i] (so it can be built, and its labels name the rows' stocks).  *)
(* The accuracies lying in [0, 1] is AccuracyInUnitInterval, on SpecData.  *)

AccuracyInUnitInterval ==
    \A n \in 1..Len(y_test_direction_accuracy) :
        LET same_direction == y_test_direction_accuracy[n][1]
            len_pred == y_test_direction_accuracy[n][2]
        IN len_pred > 0 /\ 0 <= same_direction /\ same_direction <= len_pred

C19_ResultsCompleteAligned ==
    LET S == Len(train_test_all_stocks)
        C == Len(feature_combinations)
    IN /\ pc \in {"done", "reported"} =>
              /\ Len(results) = S * C
              /\ \A i \in 0..(S - 1) : \A j \in 0..(C - 1) :
                     results[i * C + j + 1].pair =
                         [stock |-> hist_data_all_stocks[i + 1].ticker, subset |-> j]
       /\ pc = "done" =>
              /\ Len(tickers) = S
              /\ \A i \in 0..(S - 1) : tickers[i + 1] = hist_data_all_stocks[i + 1].ticker
       /\ pc = "reported" =>
              /\ Len(results_df) = S
              /\ \A i \in 0..(S - 1) :
                     /\ results_df[i + 1].label = hist_data_all_stocks[i + 1].ticker
                     /\ \A j \in 0..(C - 1) :
                            results_df[i + 1].values[j + 1] = results[i * C + j + 1]

=============================================================================
